---- MODULE Spec2Model ----
(***************************************************************************)
(* Authentication / session subsystem of the movie-list backend:           *)
(* register, login, logout and the token-guarded movie listing, together   *)
(* with the user table (PostgreSQL), the session markers (Redis) and the   *)
(* wall clock.                                                             *)
(*                                                                         *)
(* Every HTTP request is a process in a slot of `req`.  A handler is cut   *)
(* at its awaits on a store: one action is the effect of that store call   *)
(* together with the synchronous code that runs when it resolves, up to    *)
(* the next store call or the response.  A store call may fail (the        *)
(* client throws); the failure is an input of the action.                  *)
(***************************************************************************)
EXTENDS Integers, Sequences, FiniteSets, TLC

VARIABLES
    users,      \* rows of the users table
    movies,     \* rows of the movies table
    sessions,   \* Redis: key -> [value, expireAt]; holds live keys only
    now,        \* wall clock, whole seconds
    req,        \* slot -> request in flight or last answered
    issued,     \* tokens handed out in login responses (what clients hold)
    loggedOut,  \* tokens for which a logout was answered 200 (history)
    started,    \* number of requests received so far
    resps       \* responses collected by the scripted client (SpecE2E only)

vars == <<users, movies, sessions, now, req, issued, loggedOut, started, resps>>

---------------------------------------------------------------------------
\* Bounds of the model.
MaxStarted == 4
MaxNow == 1
MaxApiStarted == 3

\* Program constants.
SESSION_TTL == 600
JWT_EXPIRES == 600
USERNAME_MIN == 3
USERNAME_MAX == 30
PASSWORD_MIN == 4
PASSWORD_MAX == 50
MOVIE_FIELD_MIN == 1
MOVIE_NAME_MAX == 100
MOVIE_GENRE_MAX == 50
MOVIE_DESCRIPTION_MAX == 500

JWT_SECRET == "JWT_SECRET"
OtherSecret == "not the secret"

\* The slots: two requests are in flight at a time.
Reqs == {1, 2}

\* Inputs of the model: request bodies ("al" is too short for the schema, "bob"
\* never registers) and the names that are not alphanumeric.
Body(u, p) == [username |-> u, password |-> p]
RegisterInputs == {Body("alice", "pass1234"), Body("al", "pass1234")}
LoginInputs ==
    {Body("alice", "pass1234"), Body("alice", "wrong999"), Body("bob", "pass1234")}
NonAlphanum == {"temp_admin"}

---------------------------------------------------------------------------
\* JavaScript values.
Undefined == [type |-> "undefined"]
Null == [type |-> "null"]
JsBool(b) == [type |-> "boolean", b |-> b]
JsNum(n) == [type |-> "number", n |-> n]

\* a === b on booleans and numbers: no coercion, different types are unequal.
StrictEq(a, b) ==
    IF a.type # b.type THEN FALSE
    ELSE IF a.type = "boolean" THEN a.b = b.b
    ELSE a.n = b.n

JsString(chars) == [type |-> "string", chars |-> chars]

\* !v is false: v is none of undefined, null and the empty string.
Truthy(v) == v # Undefined /\ v # Null /\ v # JsString("")

\* JSON.stringify / JSON.parse of a session value.
JsonStringify(obj) == [type |-> "string", json |-> obj]
JsonParse(str) == str.json

---------------------------------------------------------------------------
\* bcrypt: a stored password is either a bcrypt hash of some plaintext or,
\* for the row seeded by init.sql, the raw text.
BcryptHash(plain) == [kind |-> "bcrypt", of |-> plain]
RawPassword(text) == [kind |-> "raw", of |-> text]

BcryptCompare(plain, stored) == stored.kind = "bcrypt" /\ stored.of = plain

\* Variant: the promise of bcrypt.compare tested without being awaited.
verifyPasswordNotAwaited(plainPassword, hashedPassword) == TRUE

\* Variant: the stored value compared as plain text instead of through bcrypt.
verifyPasswordPlainCompare(plainPassword, hashedPassword) ==
    hashedPassword.kind = "raw" /\ hashedPassword.of = plainPassword

verifyPassword(plainPassword, hashedPassword) ==
    BcryptCompare(plainPassword, hashedPassword)

---------------------------------------------------------------------------
\* jsonwebtoken, HS256: the token string is a function of payload and secret;
\* iat is the clock in whole seconds and exp = iat + expiresIn.
JwtSign(payload, secret, expiresIn) ==
    [username |-> payload.username, isAdmin |-> payload.isAdmin,
     iat |-> now, exp |-> now + expiresIn, sig |-> secret]

\* jwt.verify returns the payload; it throws on a bad signature or when the
\* clock has reached exp.
JwtVerifies(token, secret) == token.sig = secret /\ now < token.exp

Forge(token) == [token EXCEPT !.sig = OtherSecret]

---------------------------------------------------------------------------
\* validation.js
UserSchemaOK(body) ==
    /\ body.username \notin NonAlphanum
    /\ Len(body.username) >= USERNAME_MIN /\ Len(body.username) <= USERNAME_MAX
    /\ Len(body.password) >= PASSWORD_MIN /\ Len(body.password) <= PASSWORD_MAX

MovieSchemaOK(movie) ==
    /\ Len(movie.name) >= MOVIE_FIELD_MIN /\ Len(movie.name) <= MOVIE_NAME_MAX
    /\ Len(movie.actor) >= MOVIE_FIELD_MIN /\ Len(movie.actor) <= MOVIE_NAME_MAX
    /\ Len(movie.genre) >= MOVIE_FIELD_MIN /\ Len(movie.genre) <= MOVIE_GENRE_MAX
    /\ Len(movie.description) >= MOVIE_FIELD_MIN
    /\ Len(movie.description) <= MOVIE_DESCRIPTION_MAX

---------------------------------------------------------------------------
\* database.js, users table; init.sql seeds one row.
UserRow(id, username, password, isAdmin) ==
    [id |-> id, username |-> username, password |-> password,
     is_admin |-> JsBool(isAdmin)]

SeedUsers == {UserRow(1, "temp_admin", RawPassword("temp_password"), TRUE)}

\* id SERIAL: the next value of the sequence (no row of the run is deleted
\* after a later one was inserted).
Max(S) == CHOOSE x \in S : \A y \in S : y <= x
NextId(rows) == 1 + Max({0} \cup {row.id : row \in rows})

HasUser(username) == \E row \in users : row.username = username

findUser(username) ==
    IF HasUser(username)
    THEN CHOOSE row \in users : row.username = username
    ELSE Undefined

\* Variant: the users table without the UNIQUE constraint.
InsertWithoutUnique(username) == FALSE

\* INSERT INTO users: the UNIQUE constraint on username rejects a second row.
InsertViolatesUnique(username) == HasUser(username)

\* Variant: the new account inserted with the role flag set.
createUserPrivileged(username, password) ==
    users \cup {UserRow(NextId(users), username, BcryptHash(password), TRUE)}

createUser(username, password) ==
    users \cup {UserRow(NextId(users), username, BcryptHash(password), FALSE)}

deleteUser(username) == {row \in users : row.username # username}

\* database.js, movies table; init.sql seeds three rows.
MovieRow(id, movie, updatedBy) ==
    [id |-> id, name |-> movie.name, actor |-> movie.actor, genre |-> movie.genre,
     description |-> movie.description, updated_by |-> updatedBy]

MovieBody(name, description) ==
    [name |-> name, actor |-> "an actor", genre |-> "a genre",
     description |-> description]

SeedMovies ==
    {MovieRow(1, MovieBody("The Matrix", "A computer hacker"), "system"),
     MovieRow(2, MovieBody("Inception", "A thief"), "system"),
     MovieRow(3, MovieBody("The Godfather", "The aging patriarch"), "system")}

HasMovie(id) == \E row \in movies : row.id = id

createMovie(movie, updatedBy) ==
    movies \cup {MovieRow(NextId(movies), movie, updatedBy)}

\* Variant: the UPDATE without the updated_by column.
updateMovieKeepsUpdatedBy(id, movie, updatedBy) ==
    {IF row.id = id THEN MovieRow(id, movie, row.updated_by) ELSE row :
        row \in movies}

updateMovie(id, movie, updatedBy) ==
    {IF row.id = id THEN MovieRow(id, movie, updatedBy) ELSE row : row \in movies}

---------------------------------------------------------------------------
\* redis-client.js
SessionKey(token) == <<"session:", token>>

RedisGet(key) == IF key \in DOMAIN sessions THEN sessions[key].value ELSE Null

RedisSetEx(key, ttl, value) ==
    [k \in DOMAIN sessions \cup {key} |->
        IF k = key THEN [value |-> value, expireAt |-> now + ttl] ELSE sessions[k]]

RedisDel(key) == [k \in DOMAIN sessions \ {key} |-> sessions[k]]

\* Variant: the marker keyed by the username instead of the token.
setUserSessionKeyedByUsername(token, userData, ok) ==
    IF ok
    THEN RedisSetEx(SessionKey(JsString(userData.username)), SESSION_TTL,
                    JsonStringify(userData))
    ELSE sessions

\* Variant: the time-to-live given in minutes.
setUserSessionTtlInMinutes(token, userData, ok) ==
    IF ok THEN RedisSetEx(SessionKey(token), SESSION_TTL \div 60, JsonStringify(userData))
    ELSE sessions

\* ok = FALSE: the client call throws.
setUserSession(token, userData, ok) ==
    IF ok THEN RedisSetEx(SessionKey(token), SESSION_TTL, JsonStringify(userData))
    ELSE sessions

\* Variant: an absent key answered with an empty object instead of null.
getUserSessionEmptyObject(token, ok) ==
    IF ok
    THEN LET data == RedisGet(SessionKey(token))
         IN  IF Truthy(data) THEN JsonParse(data) ELSE [type |-> "object"]
    ELSE Null

\* Variant: a failed call answered with an empty session instead of null.
getUserSessionFailOpen(token, ok) ==
    IF ok
    THEN LET data == RedisGet(SessionKey(token))
         IN  IF Truthy(data) THEN JsonParse(data) ELSE Null
    ELSE [type |-> "object"]

getUserSession(token, ok) ==
    IF ok
    THEN LET data == RedisGet(SessionKey(token))
         IN  IF Truthy(data) THEN JsonParse(data) ELSE Null
    ELSE Null

\* Variant: the delete removes every marker of the token's user.
deleteUserSessionAllOfUser(token, ok) ==
    IF ok
    THEN [k \in {x \in DOMAIN sessions : x[2].username # token.username} |->
             sessions[k]]
    ELSE sessions

\* Variant: the delete is never sent to the store.
deleteUserSessionNotSent(token, ok) == sessions

deleteUserSession(token, ok) ==
    IF ok THEN RedisDel(SessionKey(token)) ELSE sessions

---------------------------------------------------------------------------
\* logging.js: an audit event (logAuth).
AuthEvent(action, username, success, reason) ==
    [action |-> action, username |-> username, success |-> success,
     reason |-> reason]

\* logging.js: logMovieUpdate and logAdminAction.
MovieEvent(action, movieId, username) ==
    [action |-> action, movieId |-> movieId, username |-> username]

AdminEvent(action, adminUser, targetUser) ==
    [action |-> action, adminUser |-> adminUser, targetUser |-> targetUser]

\* A request slot.  seq, lookup, owner, cred, fault, afterLogout and gate are
\* history fields: the request's arrival number,
\* what the session store truly did at the guard's lookup, whether the users
\* table held the account named in the token at that lookup, what the users
\* table truly held for the login body, whether a store call of the request
\* failed, whether the request arrived after a logout of its token was
\* answered 200, and what requireAdmin decided.
NoBody == [username |-> "", password |-> ""]
NoMovie == [name |-> "", actor |-> "", genre |-> "", description |-> ""]

IdleReq ==
    [kind |-> "none", seq |-> 0, pc |-> "idle", auth |-> Undefined, body |-> NoBody,
     movie |-> NoMovie, param |-> Undefined,
     status |-> 0, text |-> "", token |-> Null, found |-> Undefined,
     user |-> Undefined, sessionData |-> Undefined, log |-> <<>>,
     lookup |-> "none", owner |-> "none", cred |-> "none", fault |-> FALSE,
     afterLogout |-> FALSE, gate |-> "none"]

Respond(rq, status, text) ==
    [rq EXCEPT !.pc = "done", !.status = status, !.text = text]

Logged(rq, event) == [rq EXCEPT !.log = Append(@, event)]

Bearer(token) == [type |-> "string", scheme |-> "Bearer ", cred |-> token]

\* req.headers.authorization?.replace('Bearer ', '')
ExtractToken(authorization) ==
    IF authorization = Undefined THEN Undefined ELSE authorization.cred

---------------------------------------------------------------------------
\* security.js
LoginFailureMessage == "please login with correct id and pass"

RoleClaim(user) == StrictEq(user.is_admin, JsNum(1))

generateToken(user) ==
    JwtSign([username |-> user.username, isAdmin |-> RoleClaim(user)],
            JWT_SECRET, JWT_EXPIRES)

\* Variant: the role re-read from the users table instead of the token.
AttachUserFromStorage(decoded) ==
    [username |-> decoded.username,
     isAdmin |-> \E row \in users : /\ row.username = decoded.username
                                     /\ row.is_admin = JsBool(TRUE)]

AttachUser(decoded) ==
    [username |-> decoded.username, isAdmin |-> decoded.isAdmin]

\* What the store truly did at the lookup (history, not read by the code).
LookupOutcome(token, ok) ==
    IF ~ok THEN "fail"
    ELSE IF SessionKey(token) \in DOMAIN sessions THEN "hit" ELSE "miss"

\* Whether the users table holds the token's account (history, not read by
\* the code).
OwnerOutcome(token) == IF HasUser(token.username) THEN "present" ELSE "absent"

\* Variant: the guard without the session lookup (signature check only).
verifyTokenSignatureOnly(rq, ok, next) ==
    LET token == ExtractToken(rq.auth) IN
    IF ~Truthy(token)
    THEN Respond(rq, 401, "Access token required")
    ELSE IF ~JwtVerifies(token, JWT_SECRET)
    THEN Respond(Logged(rq, AuthEvent("TOKEN_VERIFICATION_FAILED", rq.auth,
                                      FALSE, "jwt error")),
                 401, "Invalid token")
    ELSE [rq EXCEPT !.user = AttachUser(token), !.pc = next]

\* Variant: the signature checked before the session lookup.
verifyTokenSignatureFirst(rq, ok, next) ==
    LET token == ExtractToken(rq.auth) IN
    IF ~Truthy(token)
    THEN Respond(rq, 401, "Access token required")
    ELSE IF ~JwtVerifies(token, JWT_SECRET)
    THEN Respond(Logged(rq, AuthEvent("TOKEN_VERIFICATION_FAILED", rq.auth,
                                      FALSE, "jwt error")),
                 401, "Invalid token")
    ELSE LET sessionData == getUserSession(token, ok)
             looked == [rq EXCEPT !.sessionData = sessionData,
                                  !.lookup = LookupOutcome(token, ok),
                                  !.owner = OwnerOutcome(token),
                                  !.fault = ~ok]
         IN  IF ~Truthy(sessionData)
             THEN Respond(looked, 401, "Session expired or invalid")
             ELSE [looked EXCEPT !.user = AttachUser(token), !.pc = next]

\* Variant: the guard also requires the token's account in the users table.
verifyTokenChecksUser(rq, ok, next) ==
    LET token == ExtractToken(rq.auth) IN
    IF ~Truthy(token)
    THEN Respond(rq, 401, "Access token required")
    ELSE LET sessionData == getUserSession(token, ok)
             looked == [rq EXCEPT !.sessionData = sessionData,
                                  !.lookup = LookupOutcome(token, ok),
                                  !.owner = OwnerOutcome(token),
                                  !.fault = ~ok]
         IN  IF ~Truthy(sessionData) \/ ~HasUser(token.username)
             THEN Respond(looked, 401, "Session expired or invalid")
             ELSE IF ~JwtVerifies(token, JWT_SECRET)
             THEN Respond(Logged(looked,
                      AuthEvent("TOKEN_VERIFICATION_FAILED", rq.auth, FALSE,
                                "jwt error")),
                      401, "Invalid token")
             ELSE [looked EXCEPT !.user = AttachUser(token), !.pc = next]

\* verifyToken: the request after the guard; `next` is the pc of the handler.
verifyToken(rq, ok, next) ==
    LET token == ExtractToken(rq.auth) IN
    IF ~Truthy(token)
    THEN Respond(rq, 401, "Access token required")
    ELSE LET sessionData == getUserSession(token, ok)
             looked == [rq EXCEPT !.sessionData = sessionData,
                                  !.lookup = LookupOutcome(token, ok),
                                  !.owner = OwnerOutcome(token),
                                  !.fault = ~ok]
         IN  IF ~Truthy(sessionData)
             THEN Respond(looked, 401, "Session expired or invalid")
             ELSE IF ~JwtVerifies(token, JWT_SECRET)
             THEN Respond(Logged(looked,
                      AuthEvent("TOKEN_VERIFICATION_FAILED", rq.auth, FALSE,
                                "jwt error")),
                      401, "Invalid token")
             ELSE [looked EXCEPT !.user = AttachUser(token), !.pc = next]

\* Variant: the gate lets every authenticated request through.
requireAdminAllowsAll(rq, next) == [rq EXCEPT !.gate = "pass", !.pc = next]

\* requireAdmin: reads the role flag verifyToken attached.
requireAdmin(rq, next) ==
    IF ~rq.user.isAdmin
    THEN Respond(Logged([rq EXCEPT !.gate = "deny"],
                        AuthEvent("UNAUTHORIZED_ADMIN_ACCESS", rq.user.username,
                                  FALSE, "")),
                 403, "Admin access required")
    ELSE [rq EXCEPT !.gate = "pass", !.pc = next]

---------------------------------------------------------------------------
\* server.js.  A request arrives in a free slot (the lowest empty one, or
\* when none is empty the one answered longest ago, whose record is dropped)
\* and its first action runs to its first store call.
Free(r) ==
    \/ req[r].pc = "idle" /\ \A q \in Reqs : req[q].pc = "idle" => r <= q
    \/ /\ req[r].pc = "done"
       /\ \A q \in Reqs : req[q].pc # "idle"
       /\ \A q \in Reqs : req[q].pc = "done" => req[r].seq <= req[q].seq

CanStart(r) == Free(r) /\ started < MaxStarted

CanStartApi(r) == Free(r) /\ started < MaxApiStarted

KnownTokens == issued \cup {Forge(t) : t \in issued}

AuthInputs == {Undefined} \cup {Bearer(t) : t \in KnownTokens}

\* The movie and admin routes are also sent "Bearer " with nothing after it.
AuthInputsApi == AuthInputs \cup {Bearer(JsString(""))}

Arrived(kind, auth, body) ==
    [IdleReq EXCEPT !.kind = kind, !.seq = started + 1, !.auth = auth,
                    !.body = body,
                    !.afterLogout = ExtractToken(auth) \in loggedOut]

---------------------------------------------------------------------------
\* POST /api/auth/register
RegisterFound(rq, ok) ==
    IF ~UserSchemaOK(rq.body) THEN Respond(rq, 400, "validation error")
    ELSE IF ~ok
    THEN Respond([rq EXCEPT !.fault = TRUE], 500, "Registration failed")
    ELSE IF Truthy(findUser(rq.body.username))
    THEN Respond(Logged(rq, AuthEvent("REGISTER_FAILED", rq.body.username,
                                      FALSE, "User already exists")),
                 400, "Username already exists")
    ELSE [rq EXCEPT !.pc = "createUser"]

Register(r) ==
    /\ CanStart(r)
    /\ \E body \in RegisterInputs, ok \in BOOLEAN :
         req' = [req EXCEPT ![r] =
                   RegisterFound(Arrived("register", Undefined, body), ok)]
    /\ started' = started + 1
    /\ UNCHANGED <<movies, users, sessions, now, issued, loggedOut, resps>>

RegisterCreateUser(r) ==
    /\ req[r].kind = "register" /\ req[r].pc = "createUser"
    /\ \E ok \in BOOLEAN :
         LET rq == req[r]
             inserted == ok /\ ~InsertViolatesUnique(rq.body.username)
         IN  /\ users' = IF inserted
                         THEN createUser(rq.body.username, rq.body.password)
                         ELSE users
             /\ req' = [req EXCEPT ![r] =
                   IF inserted
                   THEN Respond(Logged(rq, AuthEvent("REGISTER_SUCCESS",
                                   rq.body.username, TRUE, "")),
                                201, "User registered successfully")
                   ELSE Respond([rq EXCEPT !.fault = ~ok], 500,
                                "Registration failed")]
    /\ UNCHANGED <<movies, sessions, now, issued, loggedOut, started, resps>>

---------------------------------------------------------------------------
\* POST /api/auth/login
CredCase(body) ==
    IF ~HasUser(body.username) THEN "unknown"
    ELSE IF BcryptCompare(body.password, findUser(body.username).password)
    THEN "match" ELSE "mismatch"

UnknownUserResponse(rq) ==
    Respond(Logged(rq, AuthEvent("LOGIN_FAILED", rq.body.username, FALSE,
                                 "User not found")),
            401, LoginFailureMessage)

\* Variant: the wrong-password answer names its reason.
InvalidPasswordResponseNamesReason(rq) ==
    Respond(Logged(rq, AuthEvent("LOGIN_FAILED", rq.body.username, FALSE,
                                 "Invalid password")),
            401, "Invalid password")

InvalidPasswordResponse(rq) ==
    Respond(Logged(rq, AuthEvent("LOGIN_FAILED", rq.body.username, FALSE,
                                 "Invalid password")),
            401, LoginFailureMessage)

LoginFound(rq, ok) ==
    IF ~UserSchemaOK(rq.body) THEN Respond(rq, 400, "validation error")
    ELSE LET seen == [rq EXCEPT !.cred = CredCase(rq.body)] IN
    IF ~ok THEN Respond([seen EXCEPT !.fault = TRUE], 500, "Login failed")
    ELSE LET user == findUser(rq.body.username) IN
    IF ~Truthy(user) THEN UnknownUserResponse(seen)
    ELSE IF ~verifyPassword(rq.body.password, user.password)
    THEN InvalidPasswordResponse(seen)
    ELSE [seen EXCEPT !.found = user, !.token = generateToken(user),
                      !.pc = "setUserSession"]

Login(r) ==
    /\ CanStart(r)
    /\ \E body \in LoginInputs, ok \in BOOLEAN :
         req' = [req EXCEPT ![r] =
                   LoginFound(Arrived("login", Undefined, body), ok)]
    /\ started' = started + 1
    /\ UNCHANGED <<movies, users, sessions, now, issued, loggedOut, resps>>

SessionValue(user) == [username |-> user.username, isAdmin |-> RoleClaim(user)]

LoginResponse(rq) ==
    Respond(Logged(rq, AuthEvent("LOGIN_SUCCESS", rq.body.username, TRUE, "")),
            200, "Login successful")

LoginSetSession(r) ==
    /\ req[r].kind = "login" /\ req[r].pc = "setUserSession"
    /\ \E ok \in BOOLEAN :
         /\ sessions' = setUserSession(req[r].token, SessionValue(req[r].found), ok)
         /\ req' = [req EXCEPT ![r] =
                      LoginResponse([req[r] EXCEPT !.fault = ~ok])]
    /\ issued' = issued \cup {req[r].token}
    /\ UNCHANGED <<movies, users, now, loggedOut, started, resps>>

---------------------------------------------------------------------------
\* POST /api/auth/logout
Logout(r) ==
    /\ CanStart(r)
    /\ \E auth \in AuthInputs, ok \in BOOLEAN :
         req' = [req EXCEPT ![r] =
                   verifyToken(Arrived("logout", auth, NoBody), ok,
                               "deleteUserSession")]
    /\ started' = started + 1
    /\ UNCHANGED <<movies, users, sessions, now, issued, loggedOut, resps>>

\* Variant: a logout whose marker is already gone is reported as an error.
LogoutResponseReportsAbsent(rq) ==
    IF SessionKey(ExtractToken(rq.auth)) \in DOMAIN sessions
    THEN Respond(Logged(rq, AuthEvent("LOGOUT_SUCCESS", rq.user.username, TRUE, "")),
                 200, "Logged out successfully")
    ELSE Respond(rq, 500, "Logout failed")

LogoutResponse(rq) ==
    Respond(Logged(rq, AuthEvent("LOGOUT_SUCCESS", rq.user.username, TRUE, "")),
            200, "Logged out successfully")

LogoutDeleteSession(r) ==
    /\ req[r].kind = "logout" /\ req[r].pc = "deleteUserSession"
    /\ \E ok \in BOOLEAN :
         /\ sessions' = deleteUserSession(ExtractToken(req[r].auth), ok)
         /\ req' = [req EXCEPT ![r] =
                      LogoutResponse([req[r] EXCEPT !.fault = ~ok])]
    /\ loggedOut' = loggedOut \cup {ExtractToken(req[r].auth)}
    /\ UNCHANGED <<movies, users, now, issued, started, resps>>

---------------------------------------------------------------------------
\* GET /api/movies
GetMovies(r) ==
    /\ CanStart(r)
    /\ \E auth \in AuthInputs, ok \in BOOLEAN :
         req' = [req EXCEPT ![r] =
                   verifyToken(Arrived("getMovies", auth, NoBody), ok,
                               "getAllMovies")]
    /\ started' = started + 1
    /\ UNCHANGED <<movies, users, sessions, now, issued, loggedOut, resps>>

GetMoviesFetch(r) ==
    /\ req[r].kind = "getMovies" /\ req[r].pc = "getAllMovies"
    /\ \E ok \in BOOLEAN :
         req' = [req EXCEPT ![r] =
                   IF ok THEN Respond(req[r], 200, "movies")
                   ELSE Respond([req[r] EXCEPT !.fault = TRUE], 500,
                                "Failed to fetch movies")]
    /\ UNCHANGED <<movies, users, sessions, now, issued, loggedOut, started, resps>>

---------------------------------------------------------------------------
\* POST /api/movies and PUT /api/movies/:id
MovieInputs == {MovieBody("Dune", "A desert planet"), MovieBody("Dune", "")}
MovieIdInputs == {1, 9}

MovieArrived(kind, auth, movie, param) ==
    [Arrived(kind, auth, NoBody) EXCEPT !.movie = movie, !.param = param]

\* Variant: the movie routes behind a guard that does not consult the session
\* store.
MovieGuardedWithoutSession(rq, ok, next) ==
    LET authed == verifyTokenSignatureOnly(rq, ok, "validateMovie") IN
    IF authed.pc = "done" THEN authed
    ELSE IF ~MovieSchemaOK(authed.movie) THEN Respond(authed, 400, "validation error")
    ELSE [authed EXCEPT !.pc = next]

\* Variant: the movie routes with validateMovie ahead of verifyToken.
MovieValidatedFirst(rq, ok, next) ==
    IF ~MovieSchemaOK(rq.movie) THEN Respond(rq, 400, "validation error")
    ELSE verifyToken(rq, ok, next)

\* verifyToken, validateMovie, then the handler up to its store call.
MovieGuarded(rq, ok, next) ==
    LET authed == verifyToken(rq, ok, "validateMovie") IN
    IF authed.pc = "done" THEN authed
    ELSE IF ~MovieSchemaOK(authed.movie) THEN Respond(authed, 400, "validation error")
    ELSE [authed EXCEPT !.pc = next]

CreateMovie(r) ==
    /\ CanStartApi(r)
    /\ \E auth \in AuthInputsApi, movie \in MovieInputs, ok \in BOOLEAN :
         req' = [req EXCEPT ![r] =
                   MovieGuarded(MovieArrived("createMovie", auth, movie, Undefined),
                                ok, "createMovie")]
    /\ started' = started + 1
    /\ UNCHANGED <<users, movies, sessions, now, issued, loggedOut, resps>>

CreateMovieInsert(r) ==
    /\ req[r].kind = "createMovie" /\ req[r].pc = "createMovie"
    /\ \E ok \in BOOLEAN :
         LET rq == req[r] IN
         /\ movies' = IF ok THEN createMovie(rq.movie, rq.user.username) ELSE movies
         /\ req' = [req EXCEPT ![r] =
               IF ok
               THEN Respond(Logged(rq, MovieEvent("MOVIE_CREATED", NextId(movies),
                                                  rq.user.username)),
                            201, "movie")
               ELSE Respond([rq EXCEPT !.fault = TRUE], 500, "Failed to create movie")]
    /\ UNCHANGED <<users, sessions, now, issued, loggedOut, started, resps>>

UpdateMovie(r) ==
    /\ CanStartApi(r)
    /\ \E auth \in AuthInputsApi, movie \in MovieInputs, id \in MovieIdInputs,
          ok \in BOOLEAN :
         req' = [req EXCEPT ![r] =
                   MovieGuarded(MovieArrived("updateMovie", auth, movie, id),
                                ok, "updateMovie")]
    /\ started' = started + 1
    /\ UNCHANGED <<users, movies, sessions, now, issued, loggedOut, resps>>

UpdateMovieWrite(r) ==
    /\ req[r].kind = "updateMovie" /\ req[r].pc = "updateMovie"
    /\ \E ok \in BOOLEAN :
         LET rq == req[r]
             updated == ok /\ HasMovie(rq.param)
         IN
         /\ movies' = IF updated
                       THEN updateMovie(rq.param, rq.movie, rq.user.username)
                       ELSE movies
         /\ req' = [req EXCEPT ![r] =
               IF ~ok
               THEN Respond([rq EXCEPT !.fault = TRUE], 500, "Failed to update movie")
               ELSE IF ~updated THEN Respond(rq, 404, "Movie not found")
               ELSE Respond(Logged(rq, MovieEvent("MOVIE_UPDATED", rq.param,
                                                  rq.user.username)),
                            200, "Movie updated successfully")]
    /\ UNCHANGED <<users, sessions, now, issued, loggedOut, started, resps>>

---------------------------------------------------------------------------
\* DELETE /api/movies/:id, as the frontend's deleteMovie sends it.  The server
\* registers no route for it (the catch-all is app.get('*')), so Express
\* answers 404 itself; no middleware of the API runs.
NoRouteResponse(rq) == Respond(rq, 404, "Cannot DELETE")

\* Variant: a route that deletes the row.
DeleteMovieRouted(r) ==
    /\ CanStartApi(r)
    /\ \E auth \in AuthInputsApi, id \in MovieIdInputs :
         /\ req' = [req EXCEPT ![r] =
                      Respond(MovieArrived("deleteMovie", auth, NoMovie, id),
                              200, "Movie deleted successfully")]
         /\ movies' = {row \in movies : row.id # id}
    /\ started' = started + 1
    /\ UNCHANGED <<users, sessions, now, issued, loggedOut, resps>>

DeleteMovie(r) ==
    /\ CanStartApi(r)
    /\ \E auth \in AuthInputsApi, id \in MovieIdInputs :
         req' = [req EXCEPT ![r] =
                   NoRouteResponse(MovieArrived("deleteMovie", auth, NoMovie, id))]
    /\ started' = started + 1
    /\ UNCHANGED <<users, movies, sessions, now, issued, loggedOut, resps>>

\* frontend deleteMovie: what the page shows for the answer.
deleteMovieMessage(rq) ==
    IF rq.status >= 200 /\ rq.status <= 299
    THEN "Movie deleted successfully!"
    ELSE "Error deleting movie: Failed to delete movie"

---------------------------------------------------------------------------
\* /api/admin/users: verifyToken, requireAdmin (and validateUser for POST),
\* then the handler up to its store call.
AdminGuarded(rq, ok, validated, next) ==
    LET authed == verifyToken(rq, ok, "requireAdmin") IN
    IF authed.pc = "done" THEN authed
    ELSE LET gated == requireAdmin(authed, "validateUser") IN
    IF gated.pc = "done" THEN gated
    ELSE IF validated /\ ~UserSchemaOK(gated.body)
    THEN Respond(gated, 400, "validation error")
    ELSE [gated EXCEPT !.pc = next]

AdminCreateUser(r) ==
    /\ CanStartApi(r)
    /\ \E auth \in AuthInputsApi, body \in RegisterInputs, ok \in BOOLEAN :
         req' = [req EXCEPT ![r] =
                   AdminGuarded(Arrived("adminCreateUser", auth, body), ok, TRUE,
                                "adminFindUser")]
    /\ started' = started + 1
    /\ UNCHANGED <<users, movies, sessions, now, issued, loggedOut, resps>>

\* req.params.username: an account that registers and one that never does.
UsernameParams == {"alice", "bob"}

AdminDeleteUser(r) ==
    /\ CanStartApi(r)
    /\ \E auth \in AuthInputsApi, username \in UsernameParams, ok \in BOOLEAN :
         req' = [req EXCEPT ![r] =
                   AdminGuarded([Arrived("adminDeleteUser", auth, NoBody)
                                    EXCEPT !.param = username],
                                ok, FALSE, "adminDeleteUser")]
    /\ started' = started + 1
    /\ UNCHANGED <<users, movies, sessions, now, issued, loggedOut, resps>>

AdminListUsers(r) ==
    /\ CanStartApi(r)
    /\ \E auth \in AuthInputsApi, ok \in BOOLEAN :
         req' = [req EXCEPT ![r] =
                   AdminGuarded(Arrived("adminListUsers", auth, NoBody), ok, FALSE,
                                "adminGetAllUsers")]
    /\ started' = started + 1
    /\ UNCHANGED <<users, movies, sessions, now, issued, loggedOut, resps>>

\* The admin handlers past the gate.
AdminFindUser(r) ==
    /\ req[r].kind = "adminCreateUser" /\ req[r].pc = "adminFindUser"
    /\ \E ok \in BOOLEAN :
         LET rq == req[r] IN
         req' = [req EXCEPT ![r] =
               IF ~ok
               THEN Respond([rq EXCEPT !.fault = TRUE], 500, "Failed to create user")
               ELSE IF Truthy(findUser(rq.body.username))
               THEN Respond(rq, 400, "Username already exists")
               ELSE [rq EXCEPT !.pc = "adminCreateUser"]]
    /\ UNCHANGED <<users, movies, sessions, now, issued, loggedOut, started, resps>>

AdminCreateUserInsert(r) ==
    /\ req[r].kind = "adminCreateUser" /\ req[r].pc = "adminCreateUser"
    /\ \E ok \in BOOLEAN :
         LET rq == req[r]
             inserted == ok /\ ~InsertViolatesUnique(rq.body.username)
         IN  /\ users' = IF inserted
                         THEN createUser(rq.body.username, rq.body.password)
                         ELSE users
             /\ req' = [req EXCEPT ![r] =
                   IF inserted
                   THEN Respond(Logged(rq, AdminEvent("USER_CREATED",
                                   rq.user.username, rq.body.username)),
                                201, "User created successfully")
                   ELSE Respond([rq EXCEPT !.fault = ~ok], 500,
                                "Failed to create user")]
    /\ UNCHANGED <<movies, sessions, now, issued, loggedOut, started, resps>>

AdminDeleteUserRun(r) ==
    /\ req[r].kind = "adminDeleteUser" /\ req[r].pc = "adminDeleteUser"
    /\ \E ok \in BOOLEAN :
         LET rq == req[r]
             deleted == ok /\ HasUser(rq.param)
         IN  /\ users' = IF deleted THEN deleteUser(rq.param) ELSE users
             /\ req' = [req EXCEPT ![r] =
                   IF ~ok
                   THEN Respond([rq EXCEPT !.fault = TRUE], 500,
                                "Failed to delete user")
                   ELSE IF ~deleted THEN Respond(rq, 404, "User not found")
                   ELSE Respond(Logged(rq, AdminEvent("USER_DELETED",
                                   rq.user.username, rq.param)),
                                200, "User deleted successfully")]
    /\ UNCHANGED <<movies, sessions, now, issued, loggedOut, started, resps>>

AdminListUsersFetch(r) ==
    /\ req[r].kind = "adminListUsers" /\ req[r].pc = "adminGetAllUsers"
    /\ \E ok \in BOOLEAN :
         req' = [req EXCEPT ![r] =
                   IF ok THEN Respond(req[r], 200, "users")
                   ELSE Respond([req[r] EXCEPT !.fault = TRUE], 500,
                                "Failed to fetch users")]
    /\ UNCHANGED <<users, movies, sessions, now, issued, loggedOut, started, resps>>

---------------------------------------------------------------------------
\* Environment: the clock, Redis key expiry, and the users table edited
\* outside the API (an operator granting the admin flag to an account).
Unexpired(t) == [k \in {x \in DOMAIN sessions : sessions[x].expireAt > t} |->
                    sessions[k]]

Horizon == MaxNow + SESSION_TTL

ExpiryInstants ==
    {sessions[k].expireAt : k \in DOMAIN sessions} \cup {t.exp : t \in issued}

Tick ==
    /\ now < MaxNow
    /\ now' = now + 1
    /\ sessions' = Unexpired(now + 1)
    /\ UNCHANGED <<movies, users, req, issued, loggedOut, started, resps>>

\* The clock runs on to the next instant at which a token or a marker expires.
FastForward ==
    /\ \E t \in ExpiryInstants :
         /\ t > now /\ t <= Horizon
         /\ now' = t
         /\ sessions' = Unexpired(t)
    /\ UNCHANGED <<movies, users, req, issued, loggedOut, started, resps>>

GrantAdmin ==
    /\ \E row \in users \ SeedUsers :
         /\ row.is_admin = JsBool(FALSE)
         /\ users' = (users \ {row}) \cup {[row EXCEPT !.is_admin = JsBool(TRUE)]}
    /\ UNCHANGED <<movies, sessions, now, req, issued, loggedOut, started, resps>>

\* An operator deletes an account's row on the users database (the statement
\* deleteUser sends; no request reaches the handler that calls it).
RemoveUser ==
    /\ \E row \in users \ SeedUsers : users' = deleteUser(row.username)
    /\ UNCHANGED <<movies, sessions, now, req, issued, loggedOut, started, resps>>

---------------------------------------------------------------------------
Init ==
    /\ users = SeedUsers
    /\ movies = SeedMovies
    /\ sessions = <<>>
    /\ now = 0
    /\ req = [r \in Reqs |-> IdleReq]
    /\ issued = {}
    /\ loggedOut = {}
    /\ started = 0
    /\ resps = <<>>

Next ==
    \/ \E r \in Reqs :
         \/ Register(r)
         \/ RegisterCreateUser(r)
         \/ Login(r)
         \/ LoginSetSession(r)
         \/ Logout(r)
         \/ LogoutDeleteSession(r)
         \/ GetMovies(r)
         \/ GetMoviesFetch(r)
    \/ Tick
    \/ FastForward
    \/ GrantAdmin

Spec == Init /\ [][Next]_vars

\* The whole API: the routes above together with the movie and admin routes.
\* No token that generateToken signs carries the admin role (RoleClaim), so no
\* request passes requireAdmin and the admin handlers past the gate
\* (AdminFindUser, AdminCreateUserInsert, AdminDeleteUserRun,
\* AdminListUsersFetch) are never enabled.
NextApi ==
    \/ \E r \in Reqs :
         \/ started < MaxApiStarted /\ Register(r)
         \/ RegisterCreateUser(r)
         \/ started < MaxApiStarted /\ Login(r)
         \/ LoginSetSession(r)
         \/ started < MaxApiStarted /\ Logout(r)
         \/ LogoutDeleteSession(r)
         \/ started < MaxApiStarted /\ GetMovies(r)
         \/ GetMoviesFetch(r)
         \/ CreateMovie(r)
         \/ CreateMovieInsert(r)
         \/ UpdateMovie(r)
         \/ UpdateMovieWrite(r)
         \/ AdminCreateUser(r)
         \/ AdminDeleteUser(r)
         \/ AdminListUsers(r)
    \/ Tick
    \/ FastForward
    \/ GrantAdmin

SpecApi == Init /\ [][NextApi]_vars

\* The movie catalog and its callers: accounts and sessions, the movie
\* routes, the frontend's DELETE request, the admin DELETE route, and
\* accounts removed on the users database.
NextCatalog ==
    \/ \E r \in Reqs :
         \/ started < MaxApiStarted /\ Register(r)
         \/ RegisterCreateUser(r)
         \/ started < MaxApiStarted /\ Login(r)
         \/ LoginSetSession(r)
         \/ started < MaxApiStarted /\ Logout(r)
         \/ LogoutDeleteSession(r)
         \/ CreateMovie(r)
         \/ CreateMovieInsert(r)
         \/ UpdateMovie(r)
         \/ UpdateMovieWrite(r)
         \/ DeleteMovie(r)
         \/ AdminDeleteUser(r)
    \/ Tick
    \/ FastForward
    \/ RemoveUser

SpecCatalog == Init /\ [][NextCatalog]_vars

AdminHandlerStep(r) ==
    \/ AdminFindUser(r)
    \/ AdminCreateUserInsert(r)
    \/ AdminDeleteUserRun(r)
    \/ AdminListUsersFetch(r)

SpecApiWithAdminHandlers ==
    Init /\ [][NextApi \/ \E r \in Reqs : AdminHandlerStep(r)]_vars

---------------------------------------------------------------------------
\* One client alone, sending the end-to-end sequence of the specification:
\* each request after the answer to the one before, the token taken from the
\* login response.  The client keeps each answer in resps.
Script == <<"register", "login", "getMovies", "logout", "getMovies">>

ScriptBodies ==
    {Body(u, p) : u \in {"alice", "bob"}, p \in {"pass1234", "wrong999"}}

Answer(rq) ==
    [status |-> rq.status, token |-> rq.token, fault |-> rq.fault,
     body |-> rq.body]

ScriptAuth ==
    IF Len(resps) >= 2 /\ Truthy(resps[2].token) THEN Bearer(resps[2].token)
    ELSE Undefined

ScriptFirstStep(kind, body, ok) ==
    IF kind = "register"
    THEN RegisterFound(Arrived("register", Undefined, body), ok)
    ELSE IF kind = "login"
    THEN LoginFound(Arrived("login", Undefined, resps[1].body), ok)
    ELSE IF kind = "logout"
    THEN verifyToken(Arrived("logout", ScriptAuth, NoBody), ok, "deleteUserSession")
    ELSE verifyToken(Arrived("getMovies", ScriptAuth, NoBody), ok, "getAllMovies")

ScriptSend ==
    /\ started < Len(Script)
    /\ Len(resps) = started
    /\ \E body \in ScriptBodies, ok \in BOOLEAN :
         req' = [req EXCEPT ![1] = ScriptFirstStep(Script[started + 1], body, ok)]
    /\ started' = started + 1
    /\ UNCHANGED <<movies, users, sessions, now, issued, loggedOut, resps>>

ScriptReceive ==
    /\ req[1].pc = "done"
    /\ Len(resps) < started
    /\ resps' = Append(resps, Answer(req[1]))
    /\ UNCHANGED <<movies, users, sessions, now, req, issued, loggedOut, started>>

NextE2E ==
    \/ ScriptSend
    \/ ScriptReceive
    \/ RegisterCreateUser(1)
    \/ LoginSetSession(1)
    \/ LogoutDeleteSession(1)
    \/ GetMoviesFetch(1)
    \/ Tick
    \/ FastForward
    \/ GrantAdmin

SpecE2E == Init /\ [][NextE2E]_vars

---------------------------------------------------------------------------
\* Properties.

\* The request that arrives in slot r in this step.
Arrives(r) == started' = started + 1 /\ req'[r].seq = started'

Guarded(rq) == rq.kind \in {"logout", "getMovies"}

\* The guard let the request through to its handler.
Authorized(rq) ==
    rq.user # Undefined /\ rq.pc \in {"deleteUserSession", "getAllMovies", "done"}
    /\ (rq.pc = "done" => rq.status \in {200, 500})

MarkerExists(token) == SessionKey(token) \in DOMAIN sessions

AdminKinds == {"adminCreateUser", "adminDeleteUser", "adminListUsers"}

GuardedKinds ==
    {"logout", "getMovies", "createMovie", "updateMovie"} \cup AdminKinds

\* The guard attached an identity to the request.
GuardPassed(rq) == rq.user # Undefined

\* C1: a guarded request reaches its handler if and only if, at the check, the
\* lookup finds a session marker keyed by its token and the token's signature
\* and expiry validate against the signing secret.  A lookup the store does
\* not answer finds no marker.
C1_AcceptIffLookupHitAndSignature ==
    [][\A r \in Reqs :
         LET rq == req'[r]
             token == ExtractToken(rq.auth)
         IN  Arrives(r) /\ Guarded(rq) =>
               (Authorized(rq) <=>
                  /\ Truthy(token)
                  /\ ~rq.fault
                  /\ MarkerExists(token)
                  /\ JwtVerifies(token, JWT_SECRET))]_vars

\* One request was let through on a marker and a good token; another, with a
\* well-signed token, was turned away for want of a marker.
C1_Witness ==
    /\ \E r \in Reqs : Guarded(req[r]) /\ req[r].lookup = "hit" /\ req[r].user # Undefined
    /\ \E r \in Reqs :
         /\ Guarded(req[r]) /\ req[r].lookup = "miss"
         /\ ExtractToken(req[r].auth).sig = JWT_SECRET
         /\ req[r].status = 401

\* C2 as stated: once a logout presenting T has been answered 200, every
\* guard lookup for T that starts afterwards finds the marker absent and the
\* request is rejected with 401, whatever the store's delete call did.
C2_NoMarkerAfterLogout ==
    \A r \in Reqs :
        req[r].afterLogout /\ req[r].lookup # "none" =>
            req[r].lookup # "hit" /\ req[r].status = 401

\* C3 as stated: the role boolean embedded in the token at login is true
\* exactly when the user's stored role flag is privileged.
C3_TokenRoleIsStoredRole ==
    \A r \in Reqs :
        req[r].kind = "login" /\ Truthy(req[r].token) =>
            (req[r].token.isAdmin <=> req[r].found.is_admin = JsBool(TRUE))

\* C4 as stated: two successful logins of the same user return distinct
\* token strings.
C4_LoginTokensDistinct ==
    \A r1, r2 \in Reqs :
        /\ r1 # r2
        /\ req[r1].kind = "login" /\ req[r1].status = 200
        /\ req[r2].kind = "login" /\ req[r2].status = 200
        /\ req[r1].body.username = req[r2].body.username
        => req[r1].token # req[r2].token

\* C5 as stated: a second logout with token T, sent after the first was
\* answered 200, is answered 200 too.
C5_SecondLogoutSucceeds ==
    \A r \in Reqs :
        req[r].kind = "logout" /\ req[r].afterLogout /\ req[r].pc = "done" =>
            req[r].status = 200

\* C5 amended: a second logout with token T, sent after the first was answered
\* 200, is rejected by the guard with 401 "Session expired or invalid" whenever
\* no marker for T is in the store at its lookup, and leaves the store as the
\* first call left it.
C5_SecondLogoutRejectedWhenMarkerGone ==
    [][\A r \in Reqs :
         LET rq == req'[r]
         IN  /\ Arrives(r)
             /\ rq.kind = "logout" /\ rq.afterLogout
             /\ ~MarkerExists(ExtractToken(rq.auth))
             => /\ rq.pc = "done"
                /\ rq.status = 401
                /\ rq.text = "Session expired or invalid"
                /\ sessions' = sessions]_vars

C5_Witness ==
    \E r \in Reqs :
        /\ req[r].kind = "logout" /\ req[r].afterLogout
        /\ req[r].lookup = "miss" /\ req[r].status = 401

\* C6 as stated: what the caller of getUserSession observes when the store
\* call fails differs from what it observes when the key does not exist.
C6_FailureDistinctFromAbsent ==
    \A r1, r2 \in Reqs :
        req[r1].lookup = "fail" /\ req[r2].lookup = "miss" =>
            req[r1].sessionData # req[r2].sessionData

\* C7: a login that passes validation and whose user lookup is answered gets
\* the same answer for an unknown username as for a wrong password (401, the
\* same body, no token); both leave the session store unchanged and differ
\* only in the reason of their one LOGIN_FAILED audit event.
LoginFailureReason(body) ==
    IF CredCase(body) = "unknown" THEN "User not found" ELSE "Invalid password"

C7_LoginFailuresIdentical ==
    [][\A r \in Reqs :
         LET rq == req'[r]
         IN  /\ Arrives(r)
             /\ rq.kind = "login" /\ UserSchemaOK(rq.body) /\ ~rq.fault
             /\ CredCase(rq.body) \in {"unknown", "mismatch"}
             => /\ rq.pc = "done"
                /\ rq.status = 401
                /\ rq.text = LoginFailureMessage
                /\ rq.token = Null
                /\ sessions' = sessions
                /\ rq.log = <<AuthEvent("LOGIN_FAILED", rq.body.username, FALSE,
                                        LoginFailureReason(rq.body))>>]_vars

C7_Witness ==
    \E r1, r2 \in Reqs :
        /\ req[r1].kind = "login" /\ req[r1].cred = "unknown"
        /\ req[r1].status = 401
        /\ req[r2].kind = "login" /\ req[r2].cred = "mismatch"
        /\ req[r2].status = 401
        /\ req[r1].text = req[r2].text
        /\ req[r1].log[1].reason # req[r2].log[1].reason

\* C8: the identity and role the guard attaches to a request are the username
\* and role embedded in its token, whatever the users table holds.
C8_IdentityFromToken ==
    \A r \in Reqs :
        req[r].user # Undefined =>
            req[r].user = [username |-> ExtractToken(req[r].auth).username,
                           isAdmin |-> ExtractToken(req[r].auth).isAdmin]

\* An authorized request of a user whose stored flag is now privileged still
\* carries the token's role.
C8_Witness ==
    \E r \in Reqs :
        /\ req[r].user # Undefined
        /\ ~req[r].user.isAdmin
        /\ \E row \in users : /\ row.username = req[r].user.username
                              /\ row.is_admin = JsBool(TRUE)

ExpectedStatuses == <<201, 200, 200, 200, 401>>

Statuses == [i \in 1..Len(resps) |-> resps[i].status]

ScriptDone == Len(resps) = Len(Script)

NoStoreCallFailed == \A i \in 1..Len(resps) : ~resps[i].fault

BeforeExpiry == Truthy(resps[2].token) /\ now < resps[2].token.exp

\* C9: register, login, GET /api/movies, logout, GET /api/movies sent in
\* sequence by one client, for a fresh username and a valid password, are
\* answered 201, 200, 200, 200, 401: in every run in which the stores answer
\* each call and which ends before the token expires.
C9_EndToEnd ==
    ScriptDone /\ NoStoreCallFailed /\ BeforeExpiry => Statuses = ExpectedStatuses

C9_Witness ==
    ScriptDone /\ NoStoreCallFailed /\ BeforeExpiry /\ Statuses = ExpectedStatuses

IssuedFor(rq) ==
    /\ rq.status = 200
    /\ Truthy(rq.token)
    /\ rq.token.sig = JWT_SECRET /\ rq.token.iat < rq.token.exp
    /\ rq.token.username = rq.body.username

\* C10: every login attempt with a registered (username, password) pair is
\* answered with a success carrying a token that validates under the signing
\* secret at issuance and holds the username that logged in; the one other
\* answer is the 500, without a token, of an attempt whose users-table lookup
\* was not answered.
C10_RegisteredLoginSucceeds ==
    \A r \in Reqs :
        req[r].kind = "login" /\ req[r].cred = "match" /\ req[r].pc = "done" =>
            \/ IssuedFor(req[r])
            \/ req[r].status = 500 /\ req[r].fault /\ req[r].token = Null

C10_Witness ==
    \E r \in Reqs :
        req[r].kind = "login" /\ req[r].cred = "match" /\ IssuedFor(req[r])

---------------------------------------------------------------------------
\* The login request in slot r writes its marker in this step.
WritesMarker(r) ==
    /\ req[r].kind = "login" /\ req[r].pc = "setUserSession"
    /\ req'[r].pc = "done"

\* The markers written or rewritten in this step.
MarkersWritten ==
    {k \in DOMAIN sessions' : k \notin DOMAIN sessions \/ sessions'[k] # sessions[k]}

\* C11: a marker gets a time-to-live of exactly 600 seconds, set when a login
\* writes it and changed by no request that presents the token; no marker is
\* in the store 600 seconds after it was written; a guarded request presenting
\* an issued token whose marker is gone is answered 401 "Session expired or
\* invalid"; and no request is authorized 600 seconds or more after its token
\* was issued.
C11_MarkerLivesSessionTtl ==
    [][/\ \A k \in MarkersWritten :
            /\ \E r \in Reqs : WritesMarker(r) /\ k = SessionKey(req[r].token)
            /\ sessions'[k].expireAt = now + SESSION_TTL
       /\ \A k \in DOMAIN sessions' : now' < sessions'[k].expireAt
       /\ \A r \in Reqs :
            LET rq == req'[r]
                token == ExtractToken(rq.auth)
            IN  Arrives(r) /\ rq.kind \in GuardedKinds =>
                  /\ sessions' = sessions
                  /\ token \in issued /\ ~MarkerExists(token) =>
                        /\ rq.status = 401
                        /\ rq.text = "Session expired or invalid"
                  /\ GuardPassed(rq) => now < token.iat + SESSION_TTL]_vars

\* A login wrote the marker of its token, no logout of the token ran, 600
\* seconds have passed and a request presenting the token was turned away.
C11_Witness ==
    \E r1, r2 \in Reqs :
        /\ req[r1].kind = "login" /\ req[r1].status = 200 /\ ~req[r1].fault
        /\ req[r1].token \notin loggedOut
        /\ req[r2].kind \in GuardedKinds /\ ExtractToken(req[r2].auth) = req[r1].token
        /\ req[r2].seq > req[r1].seq
        /\ now >= req[r1].token.iat + SESSION_TTL
        /\ req[r2].lookup = "miss"
        /\ req[r2].status = 401 /\ req[r2].text = "Session expired or invalid"

---------------------------------------------------------------------------
\* The request is in an admin handler, past the middleware.
InAdminHandler(rq) ==
    /\ rq.kind \in AdminKinds
    /\ rq.pc \in {"adminFindUser", "adminCreateUser", "adminDeleteUser",
                  "adminGetAllUsers"}

\* C12: a request to an admin route enters the handler only if the guard
\* authorized it and the role flag attached to it is true; requireAdmin is
\* not evaluated for a request the guard rejected; an authorized request
\* whose role flag is false is answered 403 "Admin access required", records
\* one UNAUTHORIZED_ADMIN_ACCESS event and leaves the users table and the
\* session store unchanged.
C12_AdminGate ==
    [][\A r \in Reqs :
         LET rq == req'[r]
         IN  Arrives(r) /\ rq.kind \in AdminKinds =>
               /\ InAdminHandler(rq) => GuardPassed(rq) /\ rq.user.isAdmin
               /\ ~GuardPassed(rq) =>
                     rq.gate = "none" /\ rq.status = 401 /\ rq.pc = "done"
               /\ GuardPassed(rq) /\ ~rq.user.isAdmin =>
                     /\ rq.pc = "done"
                     /\ rq.status = 403
                     /\ rq.text = "Admin access required"
                     /\ rq.log = <<AuthEvent("UNAUTHORIZED_ADMIN_ACCESS",
                                             rq.user.username, FALSE, "")>>
                     /\ users' = users
                     /\ sessions' = sessions]_vars

\* An authorized request without the role was turned away at the gate.
C12_Witness ==
    \E r \in Reqs :
        /\ req[r].kind \in AdminKinds /\ GuardPassed(req[r])
        /\ req[r].gate = "deny" /\ req[r].status = 403
        /\ Len(req[r].log) = 1

\* No request passes requireAdmin.
AdminHandlersNeverRun == \A r \in Reqs : req[r].gate # "pass"

---------------------------------------------------------------------------
\* C13: a guarded request whose session lookup fails is answered 401 "Session
\* expired or invalid" and is not authorized, also when the token validates
\* and its marker is in the store.
C13_GuardFailsClosed ==
    [][\A r \in Reqs :
         LET rq == req'[r]
         IN  Arrives(r) /\ rq.kind \in GuardedKinds /\ rq.lookup = "fail" =>
               /\ rq.pc = "done"
               /\ rq.status = 401
               /\ rq.text = "Session expired or invalid"
               /\ ~GuardPassed(rq)]_vars

\* The lookup of a request failed and the request was rejected, while its
\* token validates and its marker is in the store.
C13_Witness ==
    \E r \in Reqs :
        /\ req[r].kind \in GuardedKinds /\ req[r].lookup = "fail" /\ req[r].status = 401
        /\ MarkerExists(ExtractToken(req[r].auth))
        /\ JwtVerifies(ExtractToken(req[r].auth), JWT_SECRET)

---------------------------------------------------------------------------
\* C14: the guard checks the token, then the session, then the signature, and
\* answers with the reason of the first check that fails: no header or an
\* empty token gives 401 "Access token required" without a lookup; a token
\* without a marker gives 401 "Session expired or invalid", whatever its
\* signature; a token with a marker that fails signature or expiry validation
\* gives 401 "Invalid token" and one TOKEN_VERIFICATION_FAILED event.  The
\* first two rejections record no event, and every rejection is a 401.
C14_GuardOrder ==
    [][\A r \in Reqs :
         LET rq == req'[r]
             token == ExtractToken(rq.auth)
         IN  Arrives(r) /\ rq.kind \in GuardedKinds =>
               /\ ~Truthy(token) =>
                     /\ rq.status = 401 /\ rq.text = "Access token required"
                     /\ rq.lookup = "none" /\ rq.log = <<>>
               /\ Truthy(token) /\ ~MarkerExists(token) =>
                     /\ rq.status = 401 /\ rq.text = "Session expired or invalid"
                     /\ rq.log = <<>>
               /\ Truthy(token) /\ rq.lookup = "hit" /\ ~JwtVerifies(token, JWT_SECRET) =>
                     /\ rq.status = 401 /\ rq.text = "Invalid token"
                     /\ rq.log = <<AuthEvent("TOKEN_VERIFICATION_FAILED", rq.auth,
                                             FALSE, "jwt error")>>
               /\ ~GuardPassed(rq) => rq.pc = "done" /\ rq.status = 401]_vars

\* A token whose marker was found failed validation: one event, 401.
C14_Witness ==
    \E r \in Reqs :
        /\ req[r].kind \in GuardedKinds /\ req[r].lookup = "hit"
        /\ req[r].status = 401 /\ req[r].text = "Invalid token"
        /\ Len(req[r].log) = 1

\* The guard turned away an empty token without a lookup.
EmptyTokenRejected ==
    \E r \in Reqs :
        /\ req[r].kind \in GuardedKinds
        /\ req[r].auth = Bearer(JsString(""))
        /\ req[r].text = "Access token required"

---------------------------------------------------------------------------
\* The guard found the marker of the request's token and attached an identity.
AuthorizedByGuard(rq) == rq.lookup = "hit" /\ GuardPassed(rq)

\* The request in slot r takes a step.
Steps(r) == req'[r] # req[r] /\ req[r].kind # "none" /\ req'[r].seq = req[r].seq

\* C15: a request the guard rejects is answered at once and changes no
\* store; the movies table changes only in a step of a movie request that
\* the guard authorized; a request changes the users table only in a step of
\* a register request or of an admin request that the guard authorized.
C15_RejectedRequestsChangeNothing ==
    [][/\ \A r \in Reqs :
            Arrives(r) /\ req'[r].kind \in GuardedKinds /\ ~GuardPassed(req'[r]) =>
               /\ req'[r].pc = "done"
               /\ movies' = movies /\ users' = users /\ sessions' = sessions
       /\ movies' # movies =>
            \E r \in Reqs :
               /\ Steps(r) /\ req[r].kind \in {"createMovie", "updateMovie"}
               /\ AuthorizedByGuard(req[r])
       /\ users' # users /\ req' # req =>
            \E r \in Reqs :
               /\ Steps(r)
               /\ \/ req[r].kind = "register"
                  \/ req[r].kind \in AdminKinds /\ AuthorizedByGuard(req[r])]_vars

\* An authorized request added a movie.
C15_Witness ==
    \E r \in Reqs :
        /\ req[r].kind = "createMovie" /\ AuthorizedByGuard(req[r])
        /\ req[r].status = 201
        /\ \E row \in movies \ SeedMovies : row.updated_by = req[r].user.username

\* A movie request with a valid body was rejected by the guard.
MovieRequestRejected ==
    \E r \in Reqs :
        /\ req[r].kind \in {"createMovie", "updateMovie"}
        /\ MovieSchemaOK(req[r].movie)
        /\ ~GuardPassed(req[r]) /\ req[r].status = 401

---------------------------------------------------------------------------
\* C16: every marker is written by a login request whose user record existed
\* and whose password matched it; a login that fails (unknown user, wrong
\* password, storage error) writes no marker and issues no token.
C16_MarkerOnlyAfterVerification ==
    [][/\ \A k \in MarkersWritten :
            \E r \in Reqs :
               /\ WritesMarker(r) /\ k = SessionKey(req[r].token)
               /\ req[r].cred = "match"
       /\ \A r \in Reqs :
            LET rq == req'[r]
            IN  /\ Arrives(r) /\ rq.kind = "login"
                /\ \/ rq.cred \in {"unknown", "mismatch"}
                   \/ rq.status \in {401, 500}
                => /\ rq.pc = "done" /\ rq.status # 200
                   /\ rq.token = Null
                   /\ sessions' = sessions
                   /\ issued' = issued]_vars

\* A login with the right password has its marker in the store; one with a
\* wrong password was answered 401 without a token.
C16_Witness ==
    \E r1, r2 \in Reqs :
        /\ req[r1].kind = "login" /\ req[r1].cred = "match"
        /\ req[r1].status = 200 /\ MarkerExists(req[r1].token)
        /\ req[r2].kind = "login" /\ req[r2].cred = "mismatch"
        /\ req[r2].status = 401 /\ req[r2].token = Null

---------------------------------------------------------------------------
\* C17: the users table holds at most one record per username, whatever the
\* interleaving of the requests that create users, two concurrent ones for
\* the same new username included.
C17_UsernameUnique ==
    \A u, v \in users : u.username = v.username => u = v

\* Two register requests for one new username both passed the handler's
\* find-then-create check; the insert of one was refused by the table.
C17_Witness ==
    \E r1, r2 \in Reqs :
        /\ req[r1].kind = "register" /\ req[r1].status = 201
        /\ req[r2].kind = "register" /\ req[r2].status = 500 /\ ~req[r2].fault
        /\ req[r1].body.username = req[r2].body.username
        /\ Cardinality({u \in users : u.username = req[r1].body.username}) = 1

---------------------------------------------------------------------------
\* C18 as stated: a register request for a username that is taken is answered
\* 400 "Username already exists"; of two concurrent register requests for
\* one new username one is answered 201 and the other 400.  So a register
\* request with a valid body, none of whose store calls failed to answer,
\* ends 201 or 400 "Username already exists".
C18_DuplicateRegisterAnswered400 ==
    \A r \in Reqs :
        /\ req[r].kind = "register" /\ req[r].pc = "done"
        /\ UserSchemaOK(req[r].body) /\ ~req[r].fault
        => \/ req[r].status = 201
           \/ req[r].status = 400 /\ req[r].text = "Username already exists"

---------------------------------------------------------------------------
\* C19: no step of a request changes the role flag of a record of the users
\* table, and every record a request creates is created without the role.
C19_RoleFlagUnchanged ==
    [][req' # req =>
         \A v \in users' :
            IF \E u \in users : u.id = v.id
            THEN \A u \in users : u.id = v.id => v.is_admin = u.is_admin
            ELSE v.is_admin = JsBool(FALSE)]_vars

\* A registered account is in the table without the role, next to the seeded
\* privileged one.
C19_Witness ==
    \E r \in Reqs :
        /\ req[r].kind = "register" /\ req[r].status = 201
        /\ \E v \in users : /\ v.username = req[r].body.username
                            /\ v.is_admin = JsBool(FALSE)
        /\ \E u \in users : u.is_admin = JsBool(TRUE)

---------------------------------------------------------------------------
\* The logout request in slot r deletes its marker in this step.
DeletesMarker(r) ==
    /\ req[r].kind = "logout" /\ req[r].pc = "deleteUserSession"
    /\ req'[r].pc = "done"

\* C20: the guard only reads the session store: the step in which a request
\* passes or fails the guard leaves the markers, their values and their
\* expiry times as they were.  A marker is created only by the setUserSession
\* step of a login, for its token, and removed only by the deleteUserSession
\* step of a logout of its token or when its time-to-live has run out.  The
\* steps of login and logout leave the users and movies tables unchanged.
C20_GuardReadsOnly ==
    [][/\ \A r \in Reqs :
            Arrives(r) /\ req'[r].kind \in GuardedKinds => sessions' = sessions
       /\ \A k \in MarkersWritten :
            \E r \in Reqs : WritesMarker(r) /\ k = SessionKey(req[r].token)
       /\ \A k \in DOMAIN sessions \ DOMAIN sessions' :
            \/ \E r \in Reqs :
                  DeletesMarker(r) /\ k = SessionKey(ExtractToken(req[r].auth))
            \/ now' > now /\ now' >= sessions[k].expireAt
       /\ \A r \in Reqs :
            /\ req'[r] # req[r]
            /\ req'[r].kind \in {"login", "logout"}
            => users' = users /\ movies' = movies]_vars

\* A request passed the guard and the marker of its token is still in the
\* store, with the expiry a login gave it.
C20_Witness ==
    \E r \in Reqs :
        LET token == ExtractToken(req[r].auth)
        IN  /\ req[r].kind \in GuardedKinds /\ AuthorizedByGuard(req[r])
            /\ MarkerExists(token)
            /\ sessions[SessionKey(token)].expireAt <= token.iat + MaxNow + SESSION_TTL

---------------------------------------------------------------------------
\* The validator of the request's route rejects its body.
BodyRejected(rq) ==
    \/ /\ rq.kind \in {"register", "login", "adminCreateUser"}
       /\ ~UserSchemaOK(rq.body)
    \/ /\ rq.kind \in {"createMovie", "updateMovie"}
       /\ ~MovieSchemaOK(rq.movie)

\* C21 as stated: on register, login, POST /api/movies, PUT /api/movies/:id
\* and POST /api/admin/users a request with a malformed body is answered 400
\* with no session lookup and no audit event.
C21_ValidationBeforeGuard ==
    \A r \in Reqs :
        req[r].kind # "none" /\ BodyRejected(req[r]) =>
            /\ req[r].status = 400
            /\ req[r].lookup = "none"
            /\ req[r].log = <<>>

\* C21 amended: a malformed body is answered in the request's first step.  On
\* register and login the validator runs first: 400, no users lookup, no
\* audit event.  On the movie routes verifyToken runs first: the answer is
\* 400 exactly when the guard accepted the request, after its session lookup
\* hit, and 401 otherwise.  On POST /api/admin/users verifyToken and
\* requireAdmin run first: 400 exactly when both accepted, 401 when the guard
\* refused, 403 when the gate refused.
C21_ValidationAfterGuard ==
    \A r \in Reqs :
        req[r].kind # "none" /\ BodyRejected(req[r]) =>
            /\ req[r].pc = "done"
            /\ req[r].kind \in {"register", "login"} =>
                  /\ req[r].status = 400
                  /\ req[r].cred = "none" /\ req[r].lookup = "none"
                  /\ req[r].log = <<>>
            /\ req[r].kind \in {"createMovie", "updateMovie"} =>
                  /\ req[r].status = 400 <=> GuardPassed(req[r])
                  /\ GuardPassed(req[r]) => req[r].lookup = "hit"
                  /\ ~GuardPassed(req[r]) => req[r].status = 401
            /\ req[r].kind = "adminCreateUser" =>
                  /\ req[r].status = 400 <=>
                        GuardPassed(req[r]) /\ req[r].gate = "pass"
                  /\ ~GuardPassed(req[r]) => req[r].status = 401
                  /\ req[r].gate = "deny" => req[r].status = 403

\* A movie request with a malformed body was answered 400 after the guard
\* looked its session up and accepted it.
C21_Witness ==
    \E r \in Reqs :
        /\ req[r].kind \in {"createMovie", "updateMovie"}
        /\ ~MovieSchemaOK(req[r].movie)
        /\ req[r].lookup = "hit" /\ GuardPassed(req[r])
        /\ req[r].status = 400

\* A movie request with a malformed body and no live session was answered 401.
MalformedMovieRejectedByGuard ==
    \E r \in Reqs :
        /\ req[r].kind \in {"createMovie", "updateMovie"}
        /\ ~MovieSchemaOK(req[r].movie)
        /\ req[r].status = 401

---------------------------------------------------------------------------
\* C22: the delete step of a logout that passed the guard answers 200
\* 'Logged out successfully' whether or not the marker is still in the store,
\* and creates no key; when the delete call itself does not fail, no marker
\* of the presented token is in the store after the step.
C22_LogoutAfterGuardSucceeds ==
    [][\A r \in Reqs :
          req[r].kind = "logout" /\ req[r].pc = "deleteUserSession" /\ Steps(r) =>
             /\ req'[r].pc = "done"
             /\ req'[r].status = 200
             /\ req'[r].text = "Logged out successfully"
             /\ DOMAIN sessions' \subseteq DOMAIN sessions
             /\ ~req'[r].fault =>
                   SessionKey(ExtractToken(req[r].auth)) \notin DOMAIN sessions']_vars

\* Two logouts of one token, arrived one right after the other, both found
\* the marker at the guard, both ran their delete without a store failure,
\* both were answered 200, and the marker is gone.
C22_Witness ==
    \E r1, r2 \in Reqs :
        /\ r1 # r2
        /\ req[r1].kind = "logout" /\ req[r2].kind = "logout"
        /\ req[r2].seq = req[r1].seq + 1
        /\ req[r1].auth = req[r2].auth
        /\ req[r1].lookup = "hit" /\ req[r2].lookup = "hit"
        /\ req[r1].status = 200 /\ req[r2].status = 200
        /\ ~req[r1].fault /\ ~req[r2].fault
        /\ ~MarkerExists(ExtractToken(req[r1].auth))

\* The second of two logouts has passed the guard and its delete is still to
\* run, while the first one's delete has already removed the marker.
LogoutPendingOnAbsentMarker ==
    \E r1, r2 \in Reqs :
        /\ r1 # r2
        /\ req[r1].kind = "logout" /\ req[r1].status = 200 /\ ~req[r1].fault
        /\ req[r2].kind = "logout" /\ req[r2].pc = "deleteUserSession"
        /\ req[r1].auth = req[r2].auth
        /\ ~MarkerExists(ExtractToken(req[r2].auth))

---------------------------------------------------------------------------
\* Every marker but the one under key is in the store after the step as before.
OtherMarkersKept(key) ==
    \A k \in DOMAIN sessions \ {key} :
        k \in DOMAIN sessions' /\ sessions'[k] = sessions[k]

\* C23: the delete step of a logout changes the store at most at the key of
\* the presented token, and the write step of a login changes it at most at
\* the key of the token it issues: every marker under another token, of the
\* same user or not, is left as it was.
C23_LogoutOnlyItsToken ==
    [][\A r \in Reqs :
          /\ req[r].kind = "logout" /\ req[r].pc = "deleteUserSession" /\ Steps(r) =>
                OtherMarkersKept(SessionKey(ExtractToken(req[r].auth)))
          /\ req[r].kind = "login" /\ req[r].pc = "setUserSession" /\ Steps(r) =>
                OtherMarkersKept(SessionKey(req[r].token))]_vars

\* A user with two sessions under different tokens logged one out: its
\* marker is gone and the marker of the other token is still in the store.
C23_Witness ==
    \E r \in Reqs :
        /\ req[r].kind = "logout" /\ req[r].status = 200 /\ ~req[r].fault
        /\ ~MarkerExists(ExtractToken(req[r].auth))
        /\ \E t \in issued :
              /\ t # ExtractToken(req[r].auth)
              /\ t.username = req[r].user.username
              /\ MarkerExists(t)

---------------------------------------------------------------------------
\* The request's log holds an event of the given action.
HasEvent(rq, action) == \E i \in 1..Len(rq.log) : rq.log[i].action = action

\* C24 as stated: an authorized operation on an absent entity is answered 404:
\* PUT /api/movies/:id for an id with no movie, 'Movie not found', and DELETE
\* /api/admin/users/:username for a username with no user, 'User not found',
\* sent with the live token of a login whose account was privileged; neither
\* records a MOVIE_UPDATED or USER_DELETED event.
C24_AbsentEntityAnswered404 ==
    /\ \A r \in Reqs :
          /\ req[r].kind = "updateMovie" /\ req[r].pc = "done"
          /\ AuthorizedByGuard(req[r]) /\ MovieSchemaOK(req[r].movie)
          /\ ~req[r].fault /\ ~HasMovie(req[r].param)
          => /\ req[r].status = 404 /\ req[r].text = "Movie not found"
             /\ ~HasEvent(req[r], "MOVIE_UPDATED")
    /\ \A r, l \in Reqs :
          /\ req[l].kind = "login" /\ req[l].status = 200
          /\ req[l].found.is_admin = JsBool(TRUE)
          /\ req[r].kind = "adminDeleteUser" /\ req[r].pc = "done"
          /\ ExtractToken(req[r].auth) = req[l].token
          /\ AuthorizedByGuard(req[r])
          /\ ~req[r].fault /\ ~HasUser(req[r].param)
          => /\ req[r].status = 404 /\ req[r].text = "User not found"
             /\ ~HasEvent(req[r], "USER_DELETED")

\* The movie half of C24 on its own: the write step of an update whose id
\* names no row answers 404 'Movie not found', logs nothing and leaves the
\* three stores as they were.
UpdateOfAbsentMovieAnswered404 ==
    [][\A r \in Reqs :
          /\ req[r].kind = "updateMovie" /\ req[r].pc = "updateMovie" /\ Steps(r)
          /\ ~req'[r].fault /\ ~HasMovie(req[r].param)
          => /\ req'[r].status = 404 /\ req'[r].text = "Movie not found"
             /\ req'[r].log = req[r].log
             /\ movies' = movies /\ users' = users /\ sessions' = sessions]_vars

\* An update of an absent movie was answered 404.
UpdateOfAbsentMovieSeen ==
    \E r \in Reqs :
        /\ req[r].kind = "updateMovie" /\ ~HasMovie(req[r].param)
        /\ req[r].status = 404

\* An account that was privileged at login sent DELETE for an absent username
\* and was refused by the gate.
AdminDeleteOfAbsentUserRefused ==
    \E r, l \in Reqs :
        /\ req[l].kind = "login" /\ req[l].status = 200
        /\ req[l].found.is_admin = JsBool(TRUE)
        /\ req[r].kind = "adminDeleteUser"
        /\ ExtractToken(req[r].auth) = req[l].token
        /\ AuthorizedByGuard(req[r]) /\ ~HasUser(req[r].param)
        /\ req[r].status = 403

---------------------------------------------------------------------------
\* The username in the token the request presented.
TokenUsername(rq) == ExtractToken(rq.auth).username

\* C25: the movies table changes only in the write step of a create answered
\* 201 or of an update answered 200.  The create adds one row whose
\* updated_by is the username in the token of its request and leaves the
\* other rows as they were; the update sets updated_by of the row it names to
\* the username in the token of its request and leaves the other rows as
\* they were.  So a seeded row says 'system' until its first update, and
\* every other value is the token username of the latest successful write.
C25_UpdatedByIsTokenUsername ==
    [][/\ \A r \in Reqs :
            /\ req[r].kind = "createMovie" /\ Steps(r) /\ req'[r].status = 201 =>
                  \E row \in movies' \ movies :
                     /\ movies' = movies \cup {row}
                     /\ row.updated_by = TokenUsername(req[r])
            /\ req[r].kind = "updateMovie" /\ Steps(r) /\ req'[r].status = 200 =>
                  /\ {row.id : row \in movies'} = {row.id : row \in movies}
                  /\ \A row \in movies' :
                        IF row.id = req[r].param
                        THEN row.updated_by = TokenUsername(req[r])
                        ELSE row \in movies
       /\ movies' # movies =>
            \E r \in Reqs :
               /\ Steps(r)
               /\ \/ req[r].kind = "createMovie" /\ req'[r].status = 201
                  \/ req[r].kind = "updateMovie" /\ req'[r].status = 200]_vars

\* A seeded movie was updated and carries the username of the token that
\* authorized the update, while a seeded movie nobody updated says 'system'.
C25_Witness ==
    \E r \in Reqs :
        /\ req[r].kind = "updateMovie" /\ req[r].status = 200
        /\ \E row \in movies :
              /\ row.id = req[r].param
              /\ row.updated_by = TokenUsername(req[r])
              /\ row.updated_by # "system"
        /\ \E row \in movies \cap SeedMovies : row.updated_by = "system"

---------------------------------------------------------------------------
\* C26 as stated: when a login answers 200 with token T, a marker keyed by T
\* is in the session store, whatever the outcome of the store's put call.
C26_Login200HasMarker ==
    [][\A r \in Reqs :
          /\ req[r].kind = "login" /\ req[r].pc = "setUserSession" /\ Steps(r)
          /\ req'[r].status = 200
          => SessionKey(req'[r].token) \in DOMAIN sessions']_vars

\* A login was answered 200 after its put failed, and the guard then refused
\* the token it returned for want of a marker.
LoginTokenRefusedByGuard ==
    \E l, r \in Reqs :
        /\ req[l].kind = "login" /\ req[l].status = 200 /\ req[l].fault
        /\ req[r].kind \in GuardedKinds
        /\ ExtractToken(req[r].auth) = req[l].token
        /\ req[r].lookup = "miss" /\ req[r].status = 401

---------------------------------------------------------------------------
DeleteOfLiveAccountRefused ==
    \E r \in Reqs :
        /\ req[r].kind = "adminDeleteUser" /\ req[r].status = 403
        /\ req[r].param = TokenUsername(req[r])
        /\ MarkerExists(ExtractToken(req[r].auth))

---------------------------------------------------------------------------
MovieIds == {row.id : row \in movies}

\* C28: no step removes a movie id from the movies table, and the DELETE
\* /api/movies/:id the frontend sends is answered 404 with the table
\* unchanged, so the page never shows 'Movie deleted successfully!'.
C28_CatalogOnlyGrows ==
    [][/\ MovieIds \subseteq {row.id : row \in movies'}
       /\ \A r \in Reqs :
            Arrives(r) /\ req'[r].kind = "deleteMovie" =>
               /\ req'[r].pc = "done" /\ req'[r].status = 404
               /\ movies' = movies
               /\ deleteMovieMessage(req'[r]) # "Movie deleted successfully!"]_vars

\* The holder of a live, valid token sent DELETE for a movie in the catalog:
\* the answer was 404 and the movie is still there.
C28_Witness ==
    \E r \in Reqs :
        /\ req[r].kind = "deleteMovie" /\ req[r].status = 404
        /\ HasMovie(req[r].param)
        /\ MarkerExists(ExtractToken(req[r].auth))
        /\ JwtVerifies(ExtractToken(req[r].auth), JWT_SECRET)

\* The catalog grew: a created movie stands beside the three seeded ones.
CatalogGrew == \E row \in movies : row.id \notin {seed.id : seed \in SeedMovies}

====
